---------------------------- MODULE Spec2Model ----------------------------
(***************************************************************************)
(* A model of ds-projen: a generator tree (Repository -> MetaflowProject   *)
(* -> MetaflowFlow) whose synthesis writes sample files (write-if-absent), *)
(* a semi-editable pyproject.toml and a CI/CD workflow file.               *)
(*                                                                         *)
(* Python strings whose characters the code inspects (project names, flow  *)
(* file names, path segments, dependency specifiers) are tuples of         *)
(* one-character strings.  A path is a tuple of segments; an absolute path *)
(* starts with one of the root segments.                                   *)
(***************************************************************************)
EXTENDS Integers, Sequences, FiniteSets, TLC

VARIABLES
    outdir,     \* Repository.outdir of the running process (a root segment)
    fs,         \* the disk: absolute path -> file contents
    disk0,      \* the disk as it was when the running process started
    phase,      \* position of the process / of the synth() walk
    idx,        \* position of the synth() walk in its current loop
    projects,   \* the MetaflowProject nodes of the tree, in creation order
    files,      \* the file-emitting components of the tree, in creation order
    calls,      \* invocations of get_contents_fn made by the running process
    error,      \* the exception that ended the running process, or NoError
    runs,       \* processes started so far
    edits,      \* developer edits made so far
    arg,        \* argument of the last call of add_flow, or of the function called on its own
    ret,        \* its result
    pipeline,   \* the latest run of a generated workflow on the CI service
    default_dependency_groups   \* DEFAULT_DEPENDENCY_GROUPS as the running process holds it

vars == <<outdir, fs, disk0, phase, idx, projects, files, calls, error, runs,
          edits, arg, ret, pipeline, default_dependency_groups>>

-----------------------------------------------------------------------------
(* Characters and Python's str methods                                     *)

LowerSeq == <<"a","b","c","d","e","f","g","h","i","j","k","l","m",
              "n","o","p","q","r","s","t","u","v","w","x","y","z">>
UpperSeq == <<"A","B","C","D","E","F","G","H","I","J","K","L","M",
              "N","O","P","Q","R","S","T","U","V","W","X","Y","Z">>
DigitSeq == <<"0","1","2","3","4","5","6","7","8","9">>

Range(s) == {s[i] : i \in DOMAIN s}

LowerChars == Range(LowerSeq)
UpperChars == Range(UpperSeq)
DigitChars == Range(DigitSeq)

IndexIn(s, c) == CHOOSE i \in DOMAIN s : s[i] = c

\* str.upper() / str.lower() on one character
CharUpper(c) == IF c \in LowerChars THEN UpperSeq[IndexIn(LowerSeq, c)] ELSE c
CharLower(c) == IF c \in UpperChars THEN LowerSeq[IndexIn(UpperSeq, c)] ELSE c

\* str.lower()
StrLower(s) == [i \in DOMAIN s |-> CharLower(s[i])]

\* str.replace(old, new) for one-character old and new
StrReplace(s, old, new) == [i \in DOMAIN s |-> IF s[i] = old THEN new ELSE s[i]]

\* str.endswith(suffix)
EndsWith(s, suffix) ==
    /\ Len(suffix) <= Len(s)
    /\ SubSeq(s, Len(s) - Len(suffix) + 1, Len(s)) = suffix

\* str.isidentifier() (ASCII): a letter or underscore, then letters, digits
\* and underscores
IsIdentifier(s) ==
    /\ Len(s) > 0
    /\ s[1] \in LowerChars \cup UpperChars \cup {"_"}
    /\ \A i \in DOMAIN s : s[i] \in LowerChars \cup UpperChars \cup DigitChars \cup {"_"}

\* str.islower(): at least one cased character and no uppercase one
IsLower(s) ==
    /\ \E i \in DOMAIN s : s[i] \in LowerChars
    /\ \A i \in DOMAIN s : s[i] \notin UpperChars

\* str.title(): a cased character is upper-cased when the character before
\* it is not cased, lower-cased when it is
StrTitle(s) ==
    [i \in DOMAIN s |->
        IF i > 1 /\ s[i-1] \in LowerChars \cup UpperChars
        THEN CharLower(s[i])
        ELSE CharUpper(s[i])]

\* str.split(sep) for a one-character sep: the pieces between separators
RECURSIVE StrSplit(_, _)
StrSplit(s, sep) ==
    IF \A i \in DOMAIN s : s[i] # sep
    THEN <<s>>
    ELSE LET k == CHOOSE i \in DOMAIN s :
                      s[i] = sep /\ \A j \in 1..(i-1) : s[j] # sep
         IN  <<SubSeq(s, 1, k-1)>> \o StrSplit(SubSeq(s, k+1, Len(s)), sep)

\* "".join(pieces)
RECURSIVE StrJoin(_)
StrJoin(pieces) ==
    IF pieces = <<>> THEN <<>> ELSE Head(pieces) \o StrJoin(Tail(pieces))

\* pathlib's PurePath.stem of a file name: the name without its last suffix;
\* a leading or a trailing dot starts no suffix
PathStem(name) ==
    IF \A i \in DOMAIN name : name[i] # "."
    THEN name
    ELSE LET k == CHOOSE i \in DOMAIN name :
                      name[i] = "." /\ \A j \in (i+1)..Len(name) : name[j] # "."
         IN  IF 1 < k /\ k < Len(name) THEN SubSeq(name, 1, k-1) ELSE name

\* PurePath.name: the last segment of a path
PathName(path) == path[Len(path)]


-----------------------------------------------------------------------------
(* String literals of the source                                           *)

S_flow_py == <<"_","f","l","o","w",".","p","y">>
S_py == <<".","p","y">>
S_domains == <<"d","o","m","a","i","n","s">>
S_src == <<"s","r","c">>
S_init_py == <<"_","_","i","n","i","t","_","_",".","p","y">>
S_pyproject_toml == <<"p","y","p","r","o","j","e","c","t",".","t","o","m","l">>
S_README_md == <<"R","E","A","D","M","E",".","m","d">>
S_github == <<".","g","i","t","h","u","b">>
S_workflows == <<"w","o","r","k","f","l","o","w","s">>
S_ci_cd == <<"c","i","-","c","d","-","-">>
S_dashes == <<"-","-">>
S_yml == <<".","y","m","l">>
S_glob == <<"*","*">>
S_auto_deploy == <<"a","u","t","o","-","d","e","p","l","o","y","-","-">>
S_manual_deploy == <<"m","a","n","u","a","l","-","d","e","p","l","o","y">>
S_lint == <<"l","i","n","t">>
S_test == <<"t","e","s","t">>

D_content == <<"c","o","n","t","e","n","t">>
D_operations == <<"o","p","e","r","a","t","i","o","n","s">>
D_forecasting == <<"f","o","r","e","c","a","s","t","i","n","g">>
D_market_intelligence == <<"m","a","r","k","e","t","-","i","n","t","e","l","l","i","g","e","n","c","e">>
D_demand_generation == <<"d","e","m","a","n","d","-","g","e","n","e","r","a","t","i","o","n">>
D_advertising == <<"a","d","v","e","r","t","i","s","i","n","g">>
D_reference == <<"r","e","f","e","r","e","n","c","e">>

\* the keys of DATA_SCIENCE_DOMAINS
DATA_SCIENCE_DOMAINS ==
    {D_content, D_operations, D_forecasting, D_market_intelligence,
     D_demand_generation, D_advertising, D_reference}

Dep_pytest == <<"p","y","t","e","s","t">>
Dep_pytest_cov == <<"p","y","t","e","s","t","-","c","o","v">>
Dep_pre_commit == <<"p","r","e","-","c","o","m","m","i","t">>
Dep_ruff == <<"r","u","f","f">>
Dep_mypy == <<"m","y","p","y">>

\* a dict is a function from its keys; its key order is not modelled
EmptyDict == [k \in {} |-> <<>>]

DEFAULT_DEPENDENCY_GROUPS ==
    [g \in {"dev"} |-> <<Dep_pytest, Dep_pytest_cov, Dep_pre_commit, Dep_ruff, Dep_mypy>>]

-----------------------------------------------------------------------------
(* Paths and the disk                                                      *)

\* Two directories: the working directory of the process, and another one.
RootCwd == <<"/","c","w","d">>
RootOut == <<"/","o","u","t">>
Roots == {RootCwd, RootOut}

IsAbsolute(path) == Len(path) > 0 /\ path[1] \in Roots

\* pathlib's a / b: an absolute b replaces a
PathJoin(a, b) == IF IsAbsolute(b) THEN b ELSE a \o b

\* Path.resolve(): a relative path is resolved against the working directory
PathResolve(path) == IF IsAbsolute(path) THEN path ELSE <<RootCwd>> \o path

\* Path.exists(): the operating system resolves a relative path against the
\* working directory
PathExists(path) == PathResolve(path) \in DOMAIN fs

\* the disk with `contents` written to the absolute path `path`
WriteText(disk, path, contents) ==
    [q \in DOMAIN disk \cup {path} |-> IF q = path THEN contents ELSE disk[q]]

-----------------------------------------------------------------------------
(* Sorting, as Python's sorted() orders strings: by code point             *)

AsciiSeq == <<"*", "-", ".", "/">> \o DigitSeq \o <<"=", ">", "@">> \o UpperSeq
            \o <<"_">> \o LowerSeq

CharOrd(c) == IndexIn(AsciiSeq, c)

RECURSIVE StrLess(_, _)
StrLess(a, b) ==
    IF b = <<>> THEN FALSE
    ELSE IF a = <<>> THEN TRUE
    ELSE IF a[1] # b[1] THEN CharOrd(a[1]) < CharOrd(b[1])
    ELSE StrLess(Tail(a), Tail(b))

\* sorted(list): a stable insertion sort, duplicates kept
RECURSIVE Insert(_, _)
Insert(sortedSeq, x) ==
    IF sortedSeq = <<>> THEN <<x>>
    ELSE IF StrLess(x, Head(sortedSeq)) THEN <<x>> \o sortedSeq
    ELSE <<Head(sortedSeq)>> \o Insert(Tail(sortedSeq), x)

RECURSIVE Sorted(_)
Sorted(list) ==
    IF list = <<>> THEN <<>>
    ELSE Insert(Sorted(SubSeq(list, 1, Len(list) - 1)), list[Len(list)])

\* sorted(list(some_set))
RECURSIVE SortedSet(_)
SortedSet(set) ==
    IF set = {} THEN <<>>
    ELSE LET least == CHOOSE x \in set : \A y \in set \ {x} : StrLess(x, y)
         IN  <<least>> \o SortedSet(set \ {least})

-----------------------------------------------------------------------------
(* Exceptions                                                              *)

\* An exception: its type, its message template and the values the message
\* interpolates.
NoError == [type |-> "none", text |-> "", values |-> <<>>]

Raise(type, text, values) == [type |-> type, text |-> text, values |-> values]

-----------------------------------------------------------------------------
(* metaflow_flow.py                                                        *)

\* A plausible bug: only the suffix of the file name is checked.
AssertFlowFilenameSuffixOnly(filename) ==
    IF ~EndsWith(filename, S_flow_py)
    THEN Raise("ValueError",
               "Invalid flow filename: {filename}. Flow filenames must end with '_flow.py'.",
               <<filename>>)
    ELSE NoError

\* assert_flow_filename_is_valid: the exception it raises, or NoError
assert_flow_filename_is_valid(filename) ==
    IF ~EndsWith(filename, S_flow_py)
    THEN Raise("ValueError",
               "Invalid flow filename: {filename}. Flow filenames must end with '_flow.py'.",
               <<filename>>)
    ELSE LET flow_name == SubSeq(filename, 1, Len(filename) - 3)
         IN  IF ~IsIdentifier(flow_name)
             THEN Raise("ValueError",
                        "Invalid flow name: {filename}. Flow names must be valid Python identifiers.",
                        <<filename>>)
             ELSE IF ~IsLower(flow_name)
             THEN Raise("ValueError",
                        "Invalid flow name: {filename}. Flow names must be lower snake case.",
                        <<filename>>)
             ELSE NoError

\* The name the docstring of get_flow_class_name_from_filepath promises:
\* "path/to/some_backtest_flow.py -> SomeBacktest", the suffix "_flow" gone
\* with the extension.
ClassNameSuffixStripped(flow_path) ==
    LET name == PathName(flow_path)
        base == IF EndsWith(name, S_flow_py)
                THEN SubSeq(name, 1, Len(name) - Len(S_flow_py))
                ELSE PathStem(name)
        words == StrSplit(StrReplace(base, "-", "_"), "_")
    IN  StrJoin([i \in DOMAIN words |-> StrTitle(words[i])])

\* A plausible bug: the words of the whole path are joined, not those of the
\* file name.
ClassNameOfWholePath(flow_path) ==
    LET words == StrSplit(StrReplace(PathStem(StrJoin(flow_path)), "-", "_"), "_")
    IN  StrJoin([i \in DOMAIN words |-> StrTitle(words[i])])

get_flow_class_name_from_filepath(flow_path) ==
    LET filename_no_ext == PathStem(PathName(flow_path))
        words == StrSplit(StrReplace(filename_no_ext, "-", "_"), "_")
    IN  StrJoin([i \in DOMAIN words |-> StrTitle(words[i])])

\* MetaflowFlow._get_flow_template: the starter source, which declares and
\* runs the class flow_name
FlowTemplate(flow_name) == [kind |-> "flow", text |-> flow_name]

-----------------------------------------------------------------------------
(* pyproject_toml.py                                                       *)

\* The part of a pyproject.toml the model keeps: project.name,
\* project.description, project.dependencies and the dependency-groups
\* table.  A missing key reads as an empty list or table, which is how the
\* code treats it.
\* get_pyproject_toml_values
get_pyproject_toml_values(package_name, description, dependencies, dependency_groups) ==
    [kind |-> "toml", name |-> package_name, description |-> description,
     deps |-> dependencies, groups |-> dependency_groups]

\* A plausible bug: the merged lists are not sorted.
TryGetDepsUnsorted(disk, pyproject_toml_fpath) ==
    IF PathResolve(pyproject_toml_fpath) \notin DOMAIN disk
    THEN <<<<>>, DEFAULT_DEPENDENCY_GROUPS>>
    ELSE LET c == disk[PathResolve(pyproject_toml_fpath)]
         IN  <<c.deps,
               [g \in DOMAIN DEFAULT_DEPENDENCY_GROUPS \cup DOMAIN c.groups |->
                   IF g \notin DOMAIN c.groups THEN DEFAULT_DEPENDENCY_GROUPS[g]
                   ELSE IF g \in DOMAIN DEFAULT_DEPENDENCY_GROUPS
                   THEN DEFAULT_DEPENDENCY_GROUPS[g] \o c.groups[g]
                   ELSE c.groups[g]]>>

\* A plausible bug: the file on disk is not consulted.
TryGetDepsIgnoringDisk(disk, pyproject_toml_fpath) ==
    <<<<>>, DEFAULT_DEPENDENCY_GROUPS>>

\* _try_get_deps_from_existing_pyproject_toml: <<dependencies, dependency_groups>>
TryGetDeps(disk, pyproject_toml_fpath) ==
    LET dependencies == <<>>
        dependency_groups == default_dependency_groups
    IN  IF PathResolve(pyproject_toml_fpath) \notin DOMAIN disk
        THEN <<dependencies, dependency_groups>>
        ELSE LET c == disk[PathResolve(pyproject_toml_fpath)]
             IN  <<SortedSet(Range(c.deps) \cup Range(dependencies)),
                   [g \in DOMAIN dependency_groups \cup DOMAIN c.groups |->
                       IF g \notin DOMAIN c.groups THEN dependency_groups[g]
                       ELSE IF g \in DOMAIN dependency_groups
                       THEN SortedSet(Range(dependency_groups[g]) \cup Range(c.groups[g]))
                       ELSE Sorted(c.groups[g])]>>

\* A plausible bug: the merge works on DEFAULT_DEPENDENCY_GROUPS itself, so the
\* groups merged for one manifest become the defaults of the next.
DefaultGroupsSharedWithMerge(dependency_groups) == dependency_groups

\* dependency_groups = deepcopy(DEFAULT_DEPENDENCY_GROUPS): the merge assigns to
\* the keys of a copy, and DEFAULT_DEPENDENCY_GROUPS is after the call what it
\* was before
DefaultGroupsAfterMerge(dependency_groups) == default_dependency_groups

\* PyprojectToml.__init__, up to the TomlFile: the object the TomlFile holds
PyprojectTomlContents(disk, package_name, description, file_path, default_dependencies) ==
    LET got == TryGetDeps(disk, file_path)
        dependencies == IF got[1] = <<>> THEN default_dependencies ELSE got[1]
    IN  get_pyproject_toml_values(package_name, description, dependencies, got[2])

-----------------------------------------------------------------------------
(* ci_cd_github_actions_workflow.py                                        *)

\* A Python dict whose iteration order matters is a sequence of
\* [key, value] pairs: d[k] = v replaces the value of a key already there
\* and appends a new key.
DictKeys(d) == [i \in DOMAIN d |-> d[i].key]

DictPut(d, k, v) ==
    IF \E i \in DOMAIN d : d[i].key = k
    THEN [i \in DOMAIN d |-> IF d[i].key = k THEN [key |-> k, value |-> v] ELSE d[i]]
    ELSE Append(d, [key |-> k, value |-> v])

\* A step of a job: its name, the condition of its script under which the
\* script takes the production branch ("never" for a step that has none,
\* "always" for a script that is production only), and the flow file it runs.
Step(name, prod_if, flow_file_name) ==
    [name |-> name, prod_if |-> prod_if, flow_file_name |-> flow_file_name]

CheckoutStep == Step("actions/checkout@v4", "never", <<>>)
SetUpUvStep == Step("Set up uv", "never", <<>>)

\* A job: its "if" expression, the jobs it needs, its working directory and
\* its steps.
_get_lint_job(working_directory) ==
    [cond |-> "github.event_name != 'workflow_dispatch'", needs |-> <<>>,
     working_directory |-> working_directory,
     steps |-> <<CheckoutStep, SetUpUvStep, Step("Run pre-commit", "never", <<>>)>>]

_get_test_job(working_directory) ==
    [cond |-> "github.event_name != 'workflow_dispatch'", needs |-> <<>>,
     working_directory |-> working_directory,
     steps |-> <<CheckoutStep, SetUpUvStep, Step("Run pytest", "never", <<>>)>>]

\* A plausible bug: the auto-deploy job does not wait for lint and test.
AutoDeployJobWithoutNeeds(working_directory, flow_file_name) ==
    [cond |-> "github.event_name == 'push' && github.ref == 'refs/heads/main'",
     needs |-> <<>>,
     working_directory |-> working_directory,
     steps |-> <<CheckoutStep, SetUpUvStep,
                 Step("Configure Outerbounds Auth", "always", <<>>),
                 Step("Deploy Prod Flow", "always", flow_file_name)>>]

_get_auto_deploy_job(working_directory, flow_file_name) ==
    [cond |-> "github.event_name == 'push' && github.ref == 'refs/heads/main'",
     needs |-> <<S_lint, S_test>>,
     working_directory |-> working_directory,
     steps |-> <<CheckoutStep, SetUpUvStep,
                 Step("Configure Outerbounds Auth", "always", <<>>),
                 Step("Deploy Prod Flow", "always", flow_file_name)>>]

\* A plausible bug: the deploy steps are added last flow first.
ManualDeployJobLastFlowFirst(working_directory, flows) ==
    [cond |-> "github.event_name == 'workflow_dispatch'", needs |-> <<>>,
     working_directory |-> working_directory,
     steps |-> <<CheckoutStep, SetUpUvStep,
                 Step("Configure Outerbounds Auth",
                      "github.event.inputs.environment == prod", <<>>)>>
               \o [i \in DOMAIN flows |->
                     Step("Deploy {flow_name}", "github.event.inputs.environment == prod",
                          PathName(flows[Len(flows) + 1 - i].flow_path))]]

_get_manual_deploy_job(working_directory, flows) ==
    [cond |-> "github.event_name == 'workflow_dispatch'", needs |-> <<>>,
     working_directory |-> working_directory,
     steps |-> <<CheckoutStep, SetUpUvStep,
                 Step("Configure Outerbounds Auth",
                      "github.event.inputs.environment == prod", <<>>)>>
               \o [i \in DOMAIN flows |->
                     Step("Deploy {flow_name}", "github.event.inputs.environment == prod",
                          PathName(flows[i].flow_path))]]

\* A plausible bug: the file name leaves out the domain.
WorkflowNameWithoutDomain(p) == S_ci_cd \o p.name \o S_yml

WorkflowName(p) == S_ci_cd \o p.domain \o S_dashes \o p.name \o S_yml

WorkflowFilePath(p) == <<S_github, S_workflows, WorkflowName(p)>>

\* the jobs dict after the loop over the first n flows
RECURSIVE AutoDeployJobs(_, _, _)
AutoDeployJobs(jobs, p, n) ==
    IF n = 0 THEN jobs
    ELSE LET flow_file_name == PathName(p.flows[n].flow_path)
             job_id_suffix == StrReplace(flow_file_name, ".", "_")
         IN  DictPut(AutoDeployJobs(jobs, p, n - 1), S_auto_deploy \o job_id_suffix,
                     _get_auto_deploy_job(p.outdir, flow_file_name))

\* A plausible bug: the path filters name the directory of every project of
\* the repository instead of the project's own.
WorkflowContentOfAllProjects(p) ==
    LET dirs == [i \in DOMAIN projects |->
                    IF projects[i].registered THEN projects[i].outdir \o <<S_glob>>
                    ELSE <<S_glob>>]
        paths == dirs \o <<WorkflowFilePath(p)>>
        fixed == <<[key |-> S_lint, value |-> _get_lint_job(p.outdir)],
                   [key |-> S_test, value |-> _get_test_job(p.outdir)]>>
    IN  [kind |-> "yaml",
         name |-> <<p.domain, p.name>>,
         push_branches |-> <<"main">>,
         push_paths |-> paths,
         pull_request_types |-> <<"opened", "synchronize">>,
         pull_request_paths |-> paths,
         environment_description |-> "prod: main only; dev: all branches",
         environment_options |-> <<"dev", "prod">>,
         jobs |-> DictPut(AutoDeployJobs(fixed, p, Len(p.flows)), S_manual_deploy,
                          _get_manual_deploy_job(p.outdir, p.flows))]

\* _create_workflow_file: the object the YamlFile holds
WorkflowContent(p) ==
    LET paths == <<p.outdir \o <<S_glob>>, WorkflowFilePath(p)>>
        fixed == <<[key |-> S_lint, value |-> _get_lint_job(p.outdir)],
                   [key |-> S_test, value |-> _get_test_job(p.outdir)]>>
    IN  [kind |-> "yaml",
         name |-> <<p.domain, p.name>>,
         push_branches |-> <<"main">>,
         push_paths |-> paths,
         pull_request_types |-> <<"opened", "synchronize">>,
         pull_request_paths |-> paths,
         environment_description |-> "prod: main only; dev: all branches",
         environment_options |-> <<"dev", "prod">>,
         jobs |-> DictPut(AutoDeployJobs(fixed, p, Len(p.flows)), S_manual_deploy,
                          _get_manual_deploy_job(p.outdir, p.flows))]

-----------------------------------------------------------------------------
(* A run of a generated workflow on GitHub Actions                         *)

MaxPipelineRuns == 1

Branches == {"main", "feature"}

RefOfBranch(branch) == IF branch = "main" THEN "refs/heads/main" ELSE "refs/heads/feature"

PullRequestRef == "refs/pull/1/merge"

NoPipeline ==
    [n |-> 0, event |-> "", ref |-> "", environment |-> "", jobs |-> <<>>,
     status |-> <<>>, prod_configured |-> {}, prod_deployed |-> {}]

\* the "if" expressions the generated jobs carry
EvalCond(cond, event, ref) ==
    CASE cond = "github.event_name != 'workflow_dispatch'" -> event # "workflow_dispatch"
      [] cond = "github.event_name == 'push' && github.ref == 'refs/heads/main'" ->
             event = "push" /\ ref = "refs/heads/main"
      [] cond = "github.event_name == 'workflow_dispatch'" -> event = "workflow_dispatch"

\* the "on" section: the events that start a run of the document
Triggers(doc, event, ref, environment) ==
    CASE event = "push" ->
             /\ \E b \in Range(doc.push_branches) : ref = RefOfBranch(b)
             /\ environment = ""
      [] event = "pull_request" -> ref = PullRequestRef /\ environment = ""
      [] event = "workflow_dispatch" ->
             /\ \E b \in Branches : ref = RefOfBranch(b)
             /\ environment \in Range(doc.environment_options)

Settled == {"skipped", "success", "failure"}

JobIndex(jobs, id) == CHOOSE j \in DOMAIN jobs : jobs[j].key = id

\* whether a step's script takes its production branch in the run
TakesProd(step, environment) ==
    \/ step.prod_if = "always"
    \/ step.prod_if = "github.event.inputs.environment == prod" /\ environment = "prod"

\* An event starts a run of the workflow file at `path`.
TriggerPipeline(path, event, ref, environment) ==
    /\ phase = "done"
    /\ pipeline.n < MaxPipelineRuns
    /\ \A j \in DOMAIN pipeline.status : pipeline.status[j] \in Settled
    /\ path \in DOMAIN fs
    /\ fs[path].kind = "yaml"
    /\ Triggers(fs[path], event, ref, environment)
    /\ pipeline' = [n |-> pipeline.n + 1, event |-> event, ref |-> ref,
                    environment |-> environment, jobs |-> fs[path].jobs,
                    status |-> [j \in DOMAIN fs[path].jobs |-> "waiting"],
                    prod_configured |-> {}, prod_deployed |-> {}]
    /\ UNCHANGED <<outdir, fs, disk0, phase, idx, projects, files, calls, error, runs,
                   edits, arg, ret, default_dependency_groups>>

\* The service decides about a job once the jobs it needs are settled: it
\* runs when all of them succeeded and its "if" expression is true (an
\* expression without a status function is read as success() && ...), and is
\* skipped otherwise.
EvaluateJob(j) ==
    /\ j \in DOMAIN pipeline.jobs
    /\ pipeline.status[j] = "waiting"
    /\ LET job == pipeline.jobs[j].value
           needed == {JobIndex(pipeline.jobs, id) : id \in Range(job.needs)}
       IN  /\ \A m \in needed : pipeline.status[m] \in Settled
           /\ pipeline' = [pipeline EXCEPT !.status[j] =
                  IF /\ \A m \in needed : pipeline.status[m] = "success"
                     /\ EvalCond(job.cond, pipeline.event, pipeline.ref)
                  THEN "running" ELSE "skipped"]
    /\ UNCHANGED <<outdir, fs, disk0, phase, idx, projects, files, calls, error, runs,
                   edits, arg, ret, default_dependency_groups>>

\* A running job ends: all its steps ran (failed_at = 0), or the steps up to
\* the one that failed.
FinishJob(j, failed_at) ==
    /\ j \in DOMAIN pipeline.jobs
    /\ pipeline.status[j] = "running"
    /\ LET job == pipeline.jobs[j].value
           ran == IF failed_at = 0 THEN DOMAIN job.steps ELSE 1..failed_at
           prod == {s \in ran : TakesProd(job.steps[s], pipeline.environment)}
       IN  /\ failed_at \in 0..Len(job.steps)
           /\ pipeline' = [pipeline EXCEPT
                  !.status[j] = IF failed_at = 0 THEN "success" ELSE "failure",
                  !.prod_configured = @ \cup
                      {pipeline.jobs[j].key : s \in {t \in prod : job.steps[t].flow_file_name = <<>>}},
                  !.prod_deployed = @ \cup
                      {job.steps[s].flow_file_name :
                           s \in {t \in prod : job.steps[t].flow_file_name # <<>>}}]
    /\ UNCHANGED <<outdir, fs, disk0, phase, idx, projects, files, calls, error, runs,
                   edits, arg, ret, default_dependency_groups>>

-----------------------------------------------------------------------------
(* metaflow_project.py                                                     *)

\* str.strip() of blanks
RECURSIVE StrStrip(_)
StrStrip(s) ==
    IF s = <<>> THEN s
    ELSE IF Head(s) = " " THEN StrStrip(Tail(s))
    ELSE IF s[Len(s)] = " " THEN StrStrip(SubSeq(s, 1, Len(s) - 1))
    ELSE s

\* re.match(r"^[a-z][a-z-]*[a-z]$", s) and the same with "_" for "-"
MatchesNamePattern(s, sep) ==
    /\ Len(s) >= 2
    /\ s[1] \in LowerChars
    /\ s[Len(s)] \in LowerChars
    /\ \A i \in DOMAIN s : s[i] \in LowerChars \cup {sep}

assert__project_name__is_valid(name) ==
    IF MatchesNamePattern(StrStrip(StrLower(name)), "-") THEN NoError
    ELSE Raise("ValueError",
               "Project name must: Only contain lowercase letters and hyphens; Start and end with a letter",
               <<>>)

\* A plausible bug: the message does not say which domain was given.
AssertDomainWithoutValue(domain) ==
    IF domain \in DATA_SCIENCE_DOMAINS THEN NoError
    ELSE Raise("ValueError", "Invalid domain. Must be one of {keys}", <<>>)

assert__domain__is_valid(domain) ==
    IF domain \in DATA_SCIENCE_DOMAINS THEN NoError
    ELSE Raise("ValueError", "Invalid domain: {domain}. Must be one of {keys}", <<domain>>)

assert__import_module_name__is_valid(name) ==
    IF MatchesNamePattern(StrStrip(StrLower(name)), "_") THEN NoError
    ELSE Raise("ValueError",
               "Import module name must: Only contain lowercase letters and underscores; Start and end with a letter",
               <<>>)

\* the validations of MetaflowProject.__init__, in order; None is <<>>
ProjectInputError(name, domain, import_module_name) ==
    IF assert__project_name__is_valid(name) # NoError
    THEN assert__project_name__is_valid(name)
    ELSE IF assert__domain__is_valid(domain) # NoError
    THEN assert__domain__is_valid(domain)
    ELSE IF import_module_name # <<>>
    THEN assert__import_module_name__is_valid(import_module_name)
    ELSE NoError

\* the attributes MetaflowProject.__init__ stores; outdir_arg is a relative
\* path, None is <<>>
ProjectAttrs(name, domain, import_module_name, outdir_arg) ==
    LET out == PathJoin(<<S_domains, domain>>,
                        IF outdir_arg # <<>> THEN outdir_arg ELSE <<name>>)
        module == IF import_module_name = <<>> THEN StrReplace(name, "-", "_")
                  ELSE import_module_name
    IN  [registered |-> TRUE, name |-> name, domain |-> domain, outdir |-> out,
         import_module_name |-> module, src_dir |-> out \o <<S_src>>,
         package_dir |-> out \o <<S_src, module>>, flows |-> <<>>]

\* get_package_description: a fixed sentence naming the leads of the domain;
\* the model keeps the domain, which is all of it that varies
get_package_description(domain) == domain

\* A plausible bug: the project is appended to the repository's list before
\* its inputs are validated.
AppendedBeforeValidation ==
    [registered |-> TRUE, name |-> <<>>, domain |-> <<>>, outdir |-> <<>>,
     import_module_name |-> <<>>, src_dir |-> <<>>, package_dir |-> <<>>,
     flows |-> <<>>]

\* a MetaflowProject node whose __init__ raised before storing any attribute
PartialProject ==
    [registered |-> FALSE, name |-> <<>>, domain |-> <<>>, outdir |-> <<>>,
     import_module_name |-> <<>>, src_dir |-> <<>>, package_dir |-> <<>>,
     flows |-> <<>>]

-----------------------------------------------------------------------------
(* Bounds and inputs                                                       *)

MaxRuns == 2        \* processes run one after the other
MaxEdits == 1       \* developer edits between processes
MaxProjects == 2    \* MetaflowProject constructions per process
MaxFlows == 2       \* flows per project

P_demo == <<"d","e","m","o">>
P_my_proj == <<"m","y","-","p","r","o","j">>
F_sample == <<"s","a","m","p","l","e","_","f","l","o","w",".","p","y">>
F_dummy == <<"d","u","m","m","y","_","f","l","o","w",".","p","y">>
Dep_pandas == <<"p","a","n","d","a","s">>
Dep_requests == <<"r","e","q","u","e","s","t","s">>
Dep_mkdocs == <<"m","k","d","o","c","s">>
Dep_tox == <<"t","o","x">>

\* what a developer may put in a file the generator wrote once
UserText == [kind |-> "user", text |-> <<>>]

-----------------------------------------------------------------------------
(* The tree and the disk                                                   *)

\* projen's .gitignore of the Repository: a marker line, then the patterns
\* in the order they were added
S_gitignore == <<".","g","i","t","i","g","n","o","r","e">>
GitignoreMarker == <<"#"," ","~","~"," ","G","e","n","e","r","a","t","e","d">>
GitignorePatterns == << <<".","v","e","n","v">>,
                        <<"_","_","p","y","c","a","c","h","e","_","_">>,
                        <<"*",".","p","y","c">> >>

Lines(lines) == [kind |-> "lines", lines |-> lines]

\* the directory of the script being run, sys.path[0]: the script is run
\* from its own directory
get_projenrc_path == <<RootCwd>>

\* a file-emitting component: a LazySampleFile ("sample") or one of projen's
\* files, which are rewritten by every synthesis
FileComponent(kind, file_path, obj) == [kind |-> kind, file_path |-> file_path, obj |-> obj]

\* where a component of the Repository writes: Path(project.outdir) / file_path
FinalPath(file_path) == PathJoin(<<outdir>>, file_path)

\* projen refuses a second file component for a path of the tree
FileRegistered(file_path) ==
    \E k \in DOMAIN files :
        /\ files[k].kind # "sample"
        /\ FinalPath(files[k].file_path) = FinalPath(file_path)

\* str(path)
RECURSIVE PathStr(_)
PathStr(path) ==
    IF path = <<>> THEN <<>>
    ELSE IF Len(path) = 1 THEN path[1]
    ELSE path[1] \o <<"/">> \o PathStr(Tail(path))

FileExistsError(file_path) ==
    Raise("RuntimeError", "There is already a file under {path}", <<PathStr(file_path)>>)

Init ==
    /\ outdir = RootCwd
    /\ fs = EmptyDict
    /\ disk0 = EmptyDict
    /\ phase = "idle"
    /\ idx = 0
    /\ projects = <<>>
    /\ files = <<>>
    /\ calls = {}
    /\ error = NoError
    /\ runs = 0
    /\ edits = 0
    /\ arg = <<>>
    /\ ret = <<>>
    /\ pipeline = NoPipeline
    /\ default_dependency_groups = DEFAULT_DEPENDENCY_GROUPS

Fail(err) == phase' = "failed" /\ error' = err

\* A process starts and constructs the Repository with the output directory o.
NewRepository(o) ==
    /\ phase \in {"idle", "done", "failed"}
    /\ runs < MaxRuns
    /\ runs' = runs + 1
    /\ outdir' = o
    /\ disk0' = fs
    /\ phase' = "build"
    /\ idx' = 0
    /\ projects' = <<>>
    /\ files' = <<FileComponent("ignore", <<S_gitignore>>,
                                Lines(<<GitignoreMarker>> \o GitignorePatterns))>>
    /\ calls' = {}
    /\ error' = NoError
    /\ arg' = <<>>
    /\ default_dependency_groups' = DEFAULT_DEPENDENCY_GROUPS
    /\ UNCHANGED <<fs, edits, ret, pipeline>>

\* PyprojectToml(project=repo, package_name, description, file_path,
\* default_dependencies=...): reads the file on disk, then registers a TomlFile
PyprojectToml(package_name, description, file_path, default_dependencies) ==
    FileComponent("toml", file_path,
                  PyprojectTomlContents(fs, package_name, description, file_path,
                                        default_dependencies))

\* A plausible bug: the constructor builds the workflow file itself, before
\* any flow can have been added.
NewMetaflowProjectWithWorkflow(name, domain, import_module_name, outdir_arg) ==
    /\ phase = "build"
    /\ Len(projects) < MaxProjects
    /\ ProjectInputError(name, domain, import_module_name) = NoError
    /\ LET p == ProjectAttrs(name, domain, import_module_name, outdir_arg)
           init_py == FileComponent("sample", PathResolve(p.package_dir \o <<S_init_py>>),
                                    [kind |-> "init", text |-> p.name])
           pyproject_toml == PyprojectToml(p.name, get_package_description(p.domain),
                                           p.outdir \o <<S_pyproject_toml>>, <<>>)
           readme == FileComponent("sample", p.outdir \o <<S_README_md>>,
                                   [kind |-> "readme", text |-> p.name])
           workflow == FileComponent("yaml", WorkflowFilePath(p), WorkflowContent(p))
       IN  /\ ~FileRegistered(pyproject_toml.file_path)
           /\ projects' = Append(projects, p)
           /\ files' = files \o <<init_py, pyproject_toml, readme, workflow>>
    /\ default_dependency_groups' =
           DefaultGroupsAfterMerge(TryGetDeps(fs, ProjectAttrs(name, domain, import_module_name, outdir_arg).outdir
                                                   \o <<S_pyproject_toml>>)[2])
    /\ UNCHANGED <<outdir, fs, disk0, phase, error, idx, calls, runs, edits, arg, ret, pipeline>>

\* MetaflowProject(repo, name=, domain=, import_module_name=, outdir=)
NewMetaflowProject(name, domain, import_module_name, outdir_arg) ==
    /\ phase = "build"
    /\ Len(projects) < MaxProjects
    /\ LET err == ProjectInputError(name, domain, import_module_name)
           p == ProjectAttrs(name, domain, import_module_name, outdir_arg)
           init_py == FileComponent("sample", PathResolve(p.package_dir \o <<S_init_py>>),
                                    [kind |-> "init", text |-> p.name])
           pyproject_toml == PyprojectToml(p.name, get_package_description(p.domain),
                                           p.outdir \o <<S_pyproject_toml>>, <<>>)
           readme == FileComponent("sample", p.outdir \o <<S_README_md>>,
                                   [kind |-> "readme", text |-> p.name])
       IN  IF err # NoError
           THEN /\ projects' = Append(projects, PartialProject)
                /\ Fail(err)
                /\ UNCHANGED files
           ELSE IF FileRegistered(pyproject_toml.file_path)
           THEN /\ projects' = Append(projects, p)
                /\ files' = Append(files, init_py)
                /\ Fail(FileExistsError(pyproject_toml.file_path))
           ELSE /\ projects' = Append(projects, p)
                /\ files' = files \o <<init_py, pyproject_toml, readme>>
                /\ UNCHANGED <<phase, error>>
    /\ default_dependency_groups' =
           IF ProjectInputError(name, domain, import_module_name) # NoError
           THEN default_dependency_groups
           ELSE DefaultGroupsAfterMerge(TryGetDeps(fs, ProjectAttrs(name, domain, import_module_name, outdir_arg).outdir
                                                        \o <<S_pyproject_toml>>)[2])
    /\ UNCHANGED <<outdir, fs, disk0, idx, calls, runs, edits, arg, ret, pipeline>>

\* PyprojectToml used directly under the Repository, with file_path left
\* at its default
NewPyprojectToml(package_name, default_dependencies) ==
    /\ phase = "build"
    /\ LET c == PyprojectToml(package_name, <<>>, <<S_pyproject_toml>>,
                              default_dependencies)
       IN  IF FileRegistered(c.file_path)
           THEN Fail(FileExistsError(c.file_path)) /\ UNCHANGED files
           ELSE files' = Append(files, c) /\ UNCHANGED <<phase, error>>
    /\ default_dependency_groups' = DefaultGroupsAfterMerge(TryGetDeps(fs, <<S_pyproject_toml>>)[2])
    /\ UNCHANGED <<outdir, fs, disk0, idx, projects, calls, runs, edits, arg, ret, pipeline>>

\* project.add_flow(filename): MetaflowFlow.__init__
AddFlow(i, filename) ==
    /\ phase = "build"
    /\ i \in DOMAIN projects
    /\ projects[i].registered
    /\ Len(projects[i].flows) < MaxFlows
    /\ LET err == assert_flow_filename_is_valid(filename)
           flow_path == projects[i].src_dir \o <<filename>>
           flow_name == get_flow_class_name_from_filepath(flow_path)
       IN  IF err # NoError
           THEN Fail(err) /\ UNCHANGED <<projects, files>>
           ELSE /\ projects' = [projects EXCEPT ![i].flows =
                                   Append(@, [flow_path |-> flow_path,
                                              flow_name |-> flow_name])]
                /\ files' = Append(files, FileComponent("sample", flow_path,
                                                        FlowTemplate(flow_name)))
                /\ UNCHANGED <<phase, error>>
    /\ arg' = filename
    /\ UNCHANGED <<outdir, fs, disk0, idx, calls, runs, edits, ret, pipeline,
                   default_dependency_groups>>

-----------------------------------------------------------------------------
(* repo.synth(): projen calls pre_synthesize() of every component, then    *)
(* synthesize() of every component, then post_synthesize(), each loop in   *)
(* the order the components were created.                                  *)

Synth ==
    /\ phase = "build"
    /\ phase' = "pre"
    /\ idx' = 1
    /\ UNCHANGED <<outdir, fs, disk0, projects, files, calls, error, runs, edits, arg, ret, pipeline,
                   default_dependency_groups>>

NoFlowsError(p) ==
    Raise("ValueError", "No flows found in the project MetaflowProject(name={name})",
          <<p.name>>)

\* A plausible bug: a project is validated only when its files are about to
\* be written, so the walk starts writing before every project is checked.
PreSynthesizeUnchecked(i) ==
    /\ files' = Append(files, FileComponent("yaml", WorkflowFilePath(projects[i]),
                                            WorkflowContent(projects[i])))
    /\ idx' = idx + 1
    /\ UNCHANGED <<phase, error>>

\* MetaflowProject.pre_synthesize of the i-th project node
PreSynthesize(i) ==
    IF ~projects[i].registered
    THEN /\ Fail(Raise("AttributeError", "object has no attribute 'flows'", <<>>))
         /\ UNCHANGED <<files, idx>>
    ELSE IF Len(projects[i].flows) = 0
    THEN /\ Fail(NoFlowsError(projects[i]))
         /\ UNCHANGED <<files, idx>>
    ELSE IF FileRegistered(WorkflowFilePath(projects[i]))
    THEN /\ Fail(FileExistsError(WorkflowFilePath(projects[i])))
         /\ UNCHANGED <<files, idx>>
    ELSE /\ files' = Append(files, FileComponent("yaml", WorkflowFilePath(projects[i]),
                                                 WorkflowContent(projects[i])))
         /\ idx' = idx + 1
         /\ UNCHANGED <<phase, error>>

PreSynthesizeStep ==
    /\ phase = "pre"
    /\ idx <= Len(projects)
    /\ PreSynthesize(idx)
    /\ UNCHANGED <<outdir, fs, disk0, projects, calls, runs, edits, arg, ret, pipeline,
                   default_dependency_groups>>

PreSynthesizeDone ==
    /\ phase = "pre"
    /\ idx > Len(projects)
    /\ phase' = "synth"
    /\ idx' = 1
    /\ UNCHANGED <<outdir, fs, disk0, projects, files, calls, error, runs, edits, arg, ret, pipeline,
                   default_dependency_groups>>

\* A plausible bug: the file is written whether or not it is there.
WriteFileAlways(disk, path, contents) == WriteText(disk, path, contents)

\* write_file_if_not_exists
write_file_if_not_exists(disk, path, contents) ==
    IF path \notin DOMAIN disk THEN WriteText(disk, path, contents) ELSE disk

\* A plausible variant: the contents are asked for only when the file is
\* about to be written.
ContentCallsWhenAbsent(disk, final_fpath) ==
    IF final_fpath \in DOMAIN disk THEN {}
    ELSE {[path |-> final_fpath, existed |-> FALSE]}

\* LazySampleFile.synthesize calls get_contents_fn before it looks at the disk
ContentCalls(disk, final_fpath) ==
    {[path |-> final_fpath, existed |-> final_fpath \in DOMAIN disk]}

\* LazySampleFile.synthesize
LazySampleFileSynthesize(f) ==
    LET final_fpath == FinalPath(f.file_path)
    IN  /\ calls' = calls \cup ContentCalls(fs, final_fpath)
        /\ fs' = write_file_if_not_exists(fs, final_fpath, f.obj)

\* projen's synthesize of a TomlFile, a YamlFile or the .gitignore: the file
\* is replaced
FileBaseSynthesize(f) ==
    /\ fs' = WriteText(fs, FinalPath(f.file_path), f.obj)
    /\ UNCHANGED calls

SynthesizeStep ==
    /\ phase = "synth"
    /\ idx <= Len(files)
    /\ IF files[idx].kind = "sample"
       THEN LazySampleFileSynthesize(files[idx])
       ELSE FileBaseSynthesize(files[idx])
    /\ idx' = idx + 1
    /\ UNCHANGED <<outdir, disk0, phase, projects, files, error, runs, edits, arg, ret, pipeline,
                   default_dependency_groups>>

SynthesizeDone ==
    /\ phase = "synth"
    /\ idx > Len(files)
    /\ phase' = "post"
    /\ UNCHANGED <<outdir, fs, disk0, idx, projects, files, calls, error, runs, edits, arg, ret, pipeline,
                   default_dependency_groups>>

\* Repository.post_synthesize: _sort_gitignore_in_place
PostSynthesize ==
    /\ phase = "post"
    /\ LET gitignore_fpath == get_projenrc_path \o <<S_gitignore>>
       IN  IF gitignore_fpath \notin DOMAIN fs
           THEN /\ Fail(Raise("FileNotFoundError", "No such file or directory: {path}",
                              <<PathStr(gitignore_fpath)>>))
                /\ UNCHANGED fs
           ELSE LET gitignore_lines == fs[gitignore_fpath].lines
                IN  /\ fs' = WriteText(fs, gitignore_fpath,
                                       Lines(<<Head(gitignore_lines)>>
                                             \o Sorted(Tail(gitignore_lines))))
                    /\ phase' = "done"
                    /\ UNCHANGED error
    /\ UNCHANGED <<outdir, disk0, idx, projects, files, calls, runs, edits, arg, ret, pipeline,
                   default_dependency_groups>>

-----------------------------------------------------------------------------
(* The developer, between two processes                                    *)

\* no process is running: none has run yet or the disk was edited since the
\* last one ("idle"), or the last one has just ended ("done", "failed")
BetweenRuns == phase \in {"idle", "done", "failed"}

\* what a developer may leave in the editable sections of a manifest
UserManifests ==
    {[deps |-> <<Dep_requests>>, groups |-> EmptyDict],
     [deps |-> <<Dep_requests, Dep_pandas>>,
      groups |-> [g \in {"dev"} |-> <<Dep_tox, Dep_pytest>>]],
     [deps |-> <<>>,
      groups |-> [g \in {"dev", "docs"} |->
                     IF g = "dev" THEN <<Dep_tox>> ELSE <<Dep_tox, Dep_mkdocs>>]]}

\* the places of the manifests the developer may edit or create
ManifestPaths ==
    {<<root>> \o rel : root \in Roots,
                       rel \in {<<S_pyproject_toml>>,
                                <<S_domains, D_reference, P_demo, S_pyproject_toml>>}}

\* the developer edits (or creates) a manifest: the two editable sections
\* are set, the rest of the file is kept
UserWritesManifest(path, m) ==
    /\ BetweenRuns
    /\ edits < MaxEdits
    /\ fs' = WriteText(fs, path,
                       IF path \in DOMAIN fs
                       THEN [fs[path] EXCEPT !.deps = m.deps, !.groups = m.groups]
                       ELSE get_pyproject_toml_values(<<>>, <<>>, m.deps, m.groups))
    /\ fs' # fs
    /\ edits' = edits + 1
    /\ phase' = "idle"
    /\ UNCHANGED <<outdir, disk0, idx, projects, files, calls, error, runs, arg, ret, pipeline,
                   default_dependency_groups>>

\* a file the generator wrote once is edited
UserEditsFile(path) ==
    /\ BetweenRuns
    /\ edits < MaxEdits
    /\ path \in DOMAIN fs
    /\ fs[path].kind \in {"init", "readme", "flow"}
    /\ fs' = [fs EXCEPT ![path] = UserText]
    /\ edits' = edits + 1
    /\ phase' = "idle"
    /\ UNCHANGED <<outdir, disk0, idx, projects, files, calls, error, runs, arg, ret, pipeline,
                   default_dependency_groups>>

\* the synth() walk
SynthWalk ==
    \/ Synth
    \/ PreSynthesizeStep
    \/ PreSynthesizeDone
    \/ SynthesizeStep
    \/ SynthesizeDone
    \/ PostSynthesize

\* Processes run one after the other on the same disk, each building a tree
\* and synthesizing it; between them the developer edits generated files.
Next ==
    \/ \E o \in Roots : NewRepository(o)
    \/ NewMetaflowProject(P_demo, D_reference, <<>>, <<>>)
    \/ \E i \in 1..MaxProjects : AddFlow(i, F_sample)
    \/ SynthWalk
    \/ \E path \in DOMAIN fs : UserEditsFile(path)

Spec == Init /\ [][Next]_vars

\* One process on an empty disk: the Repository has been constructed.
InitTree ==
    /\ outdir \in Roots
    /\ fs = EmptyDict
    /\ disk0 = EmptyDict
    /\ phase = "build"
    /\ idx = 0
    /\ projects = <<>>
    /\ files = <<FileComponent("ignore", <<S_gitignore>>,
                               Lines(<<GitignoreMarker>> \o GitignorePatterns))>>
    /\ calls = {}
    /\ error = NoError
    /\ runs = 1
    /\ edits = 0
    /\ arg = <<>>
    /\ ret = <<>>
    /\ pipeline = NoPipeline
    /\ default_dependency_groups = DEFAULT_DEPENDENCY_GROUPS

NextTree ==
    \/ \E name \in {P_demo, P_my_proj} : NewMetaflowProject(name, D_reference, <<>>, <<>>)
    \/ \E i \in 1..MaxProjects, filename \in {F_sample, F_dummy} : AddFlow(i, filename)
    \/ SynthWalk

SpecTree == InitTree /\ [][NextTree]_vars

\* Processes that keep manifests, and a developer who edits them.
DefaultDependencies == {<<Dep_pandas>>, <<Dep_requests, Dep_pandas>>}

P_root == <<"r","o","o","t">>

NextManifest ==
    \/ \E o \in Roots : NewRepository(o)
    \/ \E d \in DefaultDependencies : NewPyprojectToml(P_root, d)
    \/ NewMetaflowProject(P_demo, D_reference, <<>>, <<>>)
    \/ AddFlow(1, F_sample)
    \/ SynthWalk
    \/ \E path \in ManifestPaths, m \in UserManifests : UserWritesManifest(path, m)

SpecManifest == Init /\ [][NextManifest]_vars

-----------------------------------------------------------------------------
(* Flow file names                                                         *)

MaxStemLen == 2         \* characters before the suffix of an enumerated file name

F_daily_forecast == <<"d","a","i","l","y","_","f","o","r","e","c","a","s","t","_","f","l","o","w",".","p","y">>
F_some_backtest == <<"s","o","m","e","_","b","a","c","k","t","e","s","t","_","f","l","o","w",".","p","y">>
F_some_example == <<"s","o","m","e","_","e","x","a","m","p","l","e","_","f","l","o","w",".","p","y">>
F_underscore_digit == <<"_","1","_","f","l","o","w",".","p","y">>
F_digit == <<"1","_","f","l","o","w",".","p","y">>
F_Flow == <<"F","l","o","w","_","f","l","o","w",".","p","y">>
F_DummyFlow == <<"D","u","m","m","y","F","l","o","w","_","f","l","o","w",".","p","y">>
F_at == <<"@","_","f","l","o","w",".","p","y">>
F_no_ext == <<"d","u","m","m","y","_","f","l","o","w">>

StemChars == {"a", "B", "_"}

Stems == UNION {[1..n -> StemChars] : n \in 0..MaxStemLen}

Suffixes == {S_flow_py, <<"_","f","l","o","w">>, S_py, <<"_","F","l","o","w",".","p","y">>,
             <<"f","l","o","w",".","p","y">>}

\* the file names add_flow is called with
FlowFilenames ==
    {stem \o suffix : stem \in Stems, suffix \in Suffixes}
    \cup {F_sample, F_dummy, F_daily_forecast, F_some_backtest, F_some_example,
          F_underscore_digit, F_digit, F_Flow, F_DummyFlow, F_at, F_no_ext}

\* A process that adds flows of any name to one project.
NextFlowNames ==
    \/ NewRepository(RootCwd)
    \/ NewMetaflowProject(P_demo, D_reference, <<>>, <<>>)
    \/ \E filename \in FlowFilenames : AddFlow(1, filename)

SpecFlowNames == Init /\ [][NextFlowNames]_vars

\* get_flow_class_name_from_filepath called on the path of a flow file in any
\* directory
ValidFlowFilenames == {f \in FlowFilenames : assert_flow_filename_is_valid(f) = NoError}

FlowDirs == {<<>>, <<S_src>>, <<S_domains, D_reference, P_my_proj, S_src>>,
             <<RootOut, S_domains>>, <<S_flow_py>>, <<F_dummy>>}

InitClassName ==
    /\ arg \in {dir \o <<f>> : dir \in FlowDirs, f \in ValidFlowFilenames}
    /\ ret = <<>>
    /\ pipeline = NoPipeline
    /\ default_dependency_groups = DEFAULT_DEPENDENCY_GROUPS
    /\ phase = "call"
    /\ outdir = RootCwd
    /\ fs = EmptyDict
    /\ disk0 = EmptyDict
    /\ idx = 0
    /\ projects = <<>>
    /\ files = <<>>
    /\ calls = {}
    /\ error = NoError
    /\ runs = 0
    /\ edits = 0

CallClassName ==
    /\ phase = "call"
    /\ ret' = get_flow_class_name_from_filepath(arg)
    /\ phase' = "return"
    /\ UNCHANGED <<outdir, fs, disk0, idx, projects, files, calls, error, runs, edits, arg, pipeline,
                   default_dependency_groups>>

SpecClassName == InitClassName /\ [][CallClassName]_vars

-----------------------------------------------------------------------------
(* Properties                                                              *)

WalkPhases == {"pre", "synth", "post"}

\* the paths the LazySampleFile components of the tree write to
SampleTargets ==
    {FinalPath(files[k].file_path) : k \in {j \in DOMAIN files : files[j].kind = "sample"}}

\* C1: no step of a synthesis changes a write-if-absent target (starter flow
\* source, README stub, __init__.py) that is on the disk, whatever it holds.
WriteOnceFilesAreNeverOverwritten ==
    [][(phase \in WalkPhases) =>
          \A path \in SampleTargets \cap DOMAIN fs :
              (path \in DOMAIN fs' /\ fs'[path] = fs[path])
      ]_vars

\* a process has synthesized over a starter file the developer had rewritten,
\* and the file still holds the developer's text
EditedSampleSurvivesSynthesis ==
    /\ phase = "done"
    /\ \E path \in SampleTargets :
          /\ path \in DOMAIN disk0
          /\ disk0[path] = UserText
          /\ fs[path] = UserText

\* the sample components the synthesize loop has been through
SynthesizedSamples == {k \in DOMAIN files : k < idx /\ files[k].kind = "sample"}

\* C2 (as the code has it): the content function of a write-if-absent file is
\* never invoked while the tree is built or validated, and is invoked by
\* synthesis for every such file it walks, whether or not the target exists;
\* a target reported as existing is on the disk.
ContentFnIsInvokedAtSynthesisForEveryTarget ==
    /\ phase \in {"build", "pre"} => calls = {}
    /\ phase \in {"synth", "post", "done"} =>
          /\ {c.path : c \in calls} =
                 {FinalPath(files[k].file_path) : k \in SynthesizedSamples}
          /\ \A c \in calls : c.existed => c.path \in DOMAIN disk0 \cup DOMAIN fs

\* a synthesis has invoked the content function of a file that was already
\* there, and has left the file alone
ContentFnInvokedForExistingTarget ==
    /\ phase = "done"
    /\ \E c \in calls :
          /\ c.existed
          /\ c.path \in DOMAIN disk0
          /\ fs[c.path] = disk0[c.path]

\* C2 as stated: the content function is not invoked when the target exists.
ContentFnIsNotInvokedWhenTargetExists == \A c \in calls : ~c.existed

\* the manifests the tree will write over a manifest that was on the disk
\* when the process started
RegeneratedManifests ==
    {k \in DOMAIN files : /\ files[k].kind = "toml"
                          /\ FinalPath(files[k].file_path) \in DOMAIN disk0}

\* the entries of the group named g of a dependency-groups table
GroupEntries(groups, g) == IF g \in DOMAIN groups THEN Range(groups[g]) ELSE {}

\* C3 as stated: a PyprojectToml constructed over a manifest of the output
\* directory holds the sorted, duplicate-free union of its default
\* dependencies and the dependencies of that manifest.
DependencyListIsTheSortedUnion ==
    [][\A d \in DefaultDependencies :
          (/\ NewPyprojectToml(P_root, d)
           /\ phase' = "build"
           /\ outdir = RootCwd
           /\ <<RootCwd, S_pyproject_toml>> \in DOMAIN fs)
          => files'[Len(files')].obj.deps =
                 SortedSet(Range(d) \cup Range(fs[<<RootCwd, S_pyproject_toml>>].deps))
      ]_vars

\* C4 as stated: every dependency group of a regenerated manifest, named by
\* the defaults or by the manifest on the disk, is the sorted union of the
\* entries the two give it, and there is no other group.
DependencyGroupsAreTheSortedUnion ==
    outdir = RootCwd =>
        \A k \in RegeneratedManifests :
            LET on_disk == disk0[FinalPath(files[k].file_path)].groups
                names == DOMAIN DEFAULT_DEPENDENCY_GROUPS \cup DOMAIN on_disk
            IN  /\ DOMAIN files[k].obj.groups = names
                /\ \A g \in names :
                      files[k].obj.groups[g] =
                          SortedSet(GroupEntries(DEFAULT_DEPENDENCY_GROUPS, g)
                                    \cup GroupEntries(on_disk, g))

\* the manifests on the disk before and after a process
ManifestsKept == {path \in DOMAIN disk0 \cap DOMAIN fs : disk0[path].kind = "toml"}

\* what the manifest `after` keeps of the editable sections of `before`
KeepsUserAdditions(before, after) ==
    /\ Range(before.deps) \subseteq Range(after.deps)
    /\ \A g \in DOMAIN before.groups :
          /\ g \in DOMAIN after.groups
          /\ Range(before.groups[g]) \subseteq Range(after.groups[g])

\* C5 as stated: every dependency, group name and group entry of a manifest
\* that was on the disk is in that manifest after the regeneration.
RegenerationKeepsUserAdditions ==
    phase = "done" =>
        \A path \in ManifestsKept : KeepsUserAdditions(disk0[path], fs[path])

\* C5 where the manifest read is the manifest written: the output directory
\* is the directory of the script.
RegenerationInPlaceKeepsUserAdditions ==
    (phase = "done" /\ outdir = RootCwd) =>
        \A path \in ManifestsKept : KeepsUserAdditions(disk0[path], fs[path])

\* C6 as stated: a synthesis over the manifests an earlier synthesis wrote
\* writes the same dependency list and the same dependency groups.
RegenerationCausesNoDiff ==
    phase = "done" =>
        \A path \in ManifestsKept :
            /\ fs[path].deps = disk0[path].deps
            /\ fs[path].groups = disk0[path].groups

\* synth() has been called by the running process
SynthCalled == phase \in WalkPhases \cup {"done"} \/ (phase = "failed" /\ idx > 0)

SomeProjectHasNoFlows ==
    \E i \in DOMAIN projects : projects[i].registered /\ projects[i].flows = <<>>

\* C7: once synth() is called on a tree in which some project has no flow,
\* the walk never gets past validation, it fails with no other error than a
\* ValueError, and the disk is as it was when the process started.
ZeroFlowRejection ==
    (SynthCalled /\ SomeProjectHasNoFlows) =>
        /\ phase \in {"pre", "failed"}
        /\ phase = "failed" => error.type = "ValueError"
        /\ fs = disk0

\* synth() has failed on the second project, which has no flow, after it
\* had validated the first one, which has one; nothing is on the disk
ZeroFlowProjectRejectedAfterValidOne ==
    /\ phase = "failed"
    /\ error.type = "ValueError"
    /\ idx = 2
    /\ Len(projects) = 2
    /\ projects[1].flows # <<>>
    /\ projects[2].flows = <<>>
    /\ fs = EmptyDict

\* the three rules of a flow file name
IsValidFlowFilename(filename) ==
    LET name == IF EndsWith(filename, S_py)
                THEN SubSeq(filename, 1, Len(filename) - Len(S_py))
                ELSE filename
    IN  /\ EndsWith(filename, S_flow_py)
        /\ IsIdentifier(name)
        /\ IsLower(name)

InvalidFlowFilenames == {filename \in FlowFilenames : ~IsValidFlowFilename(filename)}

\* C8: add_flow with a file name that breaks one of the three rules raises a
\* ValueError and leaves the flow lists and the components as they were.
AddFlowRejectsInvalidFilenames ==
    [][(arg' \in InvalidFlowFilenames /\ AddFlow(1, arg'))
          => /\ phase' = "failed"
             /\ error'.type = "ValueError"
             /\ projects' = projects
             /\ files' = files
      ]_vars

\* add_flow has rejected a name that is not lower case, on a project that had
\* a flow already and still has it
CapitalisedFlowRejected ==
    /\ phase = "failed"
    /\ error.type = "ValueError"
    /\ error.values = <<F_DummyFlow>>
    /\ Len(projects) = 1
    /\ Len(projects[1].flows) = 1

\* the flows add_flow has registered
RegisteredFlows ==
    UNION {Range(projects[i].flows) : i \in DOMAIN projects}

\* C9 as stated: the class name of a registered flow is its file name with
\* the suffix "_flow.py" removed and the remaining words in PascalCase.
FlowNameStripsTheSuffix ==
    \A flow \in RegisteredFlows : flow.flow_name = ClassNameSuffixStripped(flow.flow_path)

\* the title-cased words, joined, of a file name without its ".py"
TitleCasedWords(filename) ==
    LET words == StrSplit(SubSeq(filename, 1, Len(filename) - Len(S_py)), "_")
    IN  StrJoin([i \in DOMAIN words |-> StrTitle(words[i])])

S_Flow == <<"F","l","o","w">>
S_DummyFlow == <<"D","u","m","m","y">> \o S_Flow
S_SomeExampleFlow == <<"S","o","m","e","E","x","a","m","p","l","e">> \o S_Flow

-----------------------------------------------------------------------------
(* The pipeline document                                                   *)

\* the workflow files of the tree; pre_synthesize runs project by project, so
\* the n-th workflow file is that of the n-th project
WorkflowFiles == {k \in DOMAIN files : files[k].kind = "yaml"}

ProjectOf(k) == Cardinality({j \in WorkflowFiles : j <= k})

FlowFileNames(p) == [j \in DOMAIN p.flows |-> p.flows[j].flow_path[Len(p.flows[j].flow_path)]]

\* "auto-deploy--<name>", <name> being the file name with "_" for every "."
AutoDeployJobId(filename) ==
    <<"a","u","t","o","-","d","e","p","l","o","y","-","-">>
        \o [c \in DOMAIN filename |-> IF filename[c] = "." THEN "_" ELSE filename[c]]

ExpectedJobIds(p) ==
    {<<"l","i","n","t">>, <<"t","e","s","t">>,
     <<"m","a","n","u","a","l","-","d","e","p","l","o","y">>}
        \cup {AutoDeployJobId(f) : f \in Range(FlowFileNames(p))}

\* C11: the pipeline document of a project with N flows has exactly
\* 2 + N + 1 jobs: "lint", "test", one "auto-deploy--<name>" per flow and
\* "manual-deploy", after any sequence of add_flow calls.
PipelineHasOneJobPerFlow ==
    \A k \in WorkflowFiles :
        LET p == projects[ProjectOf(k)]
            jobs == files[k].obj.jobs
        IN  /\ Len(jobs) = 2 + Len(p.flows) + 1
            /\ Range(DictKeys(jobs)) = ExpectedJobIds(p)

\* the same, for flow lists in which no file name occurs twice
DistinctFlows(p) ==
    \A a, b \in DOMAIN p.flows : FlowFileNames(p)[a] = FlowFileNames(p)[b] => a = b

PipelineHasOneJobPerDistinctFlow ==
    \A k \in WorkflowFiles :
        LET p == projects[ProjectOf(k)]
            jobs == files[k].obj.jobs
        IN  /\ Cardinality(Range(DictKeys(jobs))) = Len(jobs)
            /\ Range(DictKeys(jobs)) = ExpectedJobIds(p)
            /\ DistinctFlows(p) => Len(jobs) = 2 + Len(p.flows) + 1

TwoDistinctFlowsInPipeline ==
    \E k \in WorkflowFiles :
        /\ Len(projects[ProjectOf(k)].flows) = 2
        /\ DistinctFlows(projects[ProjectOf(k)])

JobOf(jobs, id) == jobs[CHOOSE j \in DOMAIN jobs : jobs[j].key = id].value

SetupStepCount == 3

\* the manual-deploy job of every workflow file: the setup steps, then one
\* deploy step per flow of the project, in the order of the flow list
ManualDeployFollowsFlowList ==
    \A k \in WorkflowFiles :
        LET p == projects[ProjectOf(k)]
            steps == JobOf(files[k].obj.jobs,
                           <<"m","a","n","u","a","l","-","d","e","p","l","o","y">>).steps
        IN  /\ Len(steps) = SetupStepCount + Len(p.flows)
            /\ \A s \in 1..SetupStepCount : steps[s].flow_file_name = <<>>
            /\ \A j \in DOMAIN p.flows :
                   steps[SetupStepCount + j].flow_file_name = FlowFileNames(p)[j]

\* C12: the flow list of a project is append-only and holds the successfully
\* added file names in call order (a step leaves it alone or appends the
\* file name just passed to add_flow, and a successful add_flow appends), and
\* the manual-deploy job has, after its setup steps, exactly one deploy step
\* per entry of the list, in the same order.
FlowListIsAppendOnlyAndOrdersManualDeploy ==
    [][(/\ \A i \in DOMAIN projects :
               \/ projects'[i].flows = projects[i].flows
               \/ /\ Len(projects'[i].flows) = Len(projects[i].flows) + 1
                  /\ SubSeq(projects'[i].flows, 1, Len(projects[i].flows)) = projects[i].flows
                  /\ FlowFileNames(projects'[i])[Len(projects'[i].flows)] = arg'
                  /\ AddFlow(i, arg')
        /\ \A i \in DOMAIN projects :
               (AddFlow(i, arg') /\ IsValidFlowFilename(arg'))
                   => projects'[i].flows # projects[i].flows
        /\ ManualDeployFollowsFlowList')
    ]_vars

ManualDeployOfSampleThenDummy ==
    \E k \in WorkflowFiles : FlowFileNames(projects[ProjectOf(k)]) = <<F_sample, F_dummy>>

-----------------------------------------------------------------------------
(* Projects that name their own output directory                           *)

S_alt == <<"a","l","t">>

OutdirArgs == {<<>>, <<S_alt>>}

\* Processes run one after the other on the same disk.
NextDocs ==
    \/ NewRepository(RootCwd)
    \/ \E name \in {P_demo, P_my_proj}, outdir_arg \in OutdirArgs :
           NewMetaflowProject(name, D_reference, <<>>, outdir_arg)
    \/ \E i \in 1..MaxProjects : AddFlow(i, F_sample)
    \/ SynthWalk

SpecDocs == Init /\ [][NextDocs]_vars

\* One process on an empty disk, its projects in directories of their own
\* name or of another.
ProjectsInDirs == {<<P_demo, <<>>>>, <<P_my_proj, <<S_alt>>>>}

NextDirs ==
    \/ \E a \in ProjectsInDirs : NewMetaflowProject(a[1], D_reference, <<>>, a[2])
    \/ \E i \in 1..MaxProjects : AddFlow(i, F_sample)
    \/ SynthWalk

SpecDirs == InitTree /\ [][NextDirs]_vars

\* C13: the push and the pull_request path filters of a project's pipeline
\* document are exactly "<project output directory>/**" and
\* ".github/workflows/ci-cd--<domain>--<name>.yml", and the second entry is the
\* path, under the repository's output directory, the pipeline file is
\* written to.
PathFiltersAreProjectDirAndWorkflowFile ==
    \A k \in WorkflowFiles :
        LET p == projects[ProjectOf(k)]
            doc == files[k].obj
        IN  /\ doc.pull_request_paths = doc.push_paths
            /\ Len(doc.push_paths) = 2
            /\ PathStr(doc.push_paths[1]) = PathStr(p.outdir) \o <<"/","*","*">>
            /\ PathStr(doc.push_paths[2]) =
                   <<".","g","i","t","h","u","b","/","w","o","r","k","f","l","o","w","s","/","c","i","-","c","d","-","-">>
                       \o p.domain \o <<"-","-">> \o p.name \o <<".","y","m","l">>
            /\ FinalPath(files[k].file_path) = <<outdir>> \o doc.push_paths[2]
            /\ phase \in {"post", "done"} =>
                   /\ <<outdir>> \o doc.push_paths[2] \in DOMAIN fs
                   /\ fs[<<outdir>> \o doc.push_paths[2]] = doc

DemoPathFiltersWritten ==
    /\ phase = "done"
    /\ \E k \in WorkflowFiles :
           /\ PathStr(files[k].obj.push_paths[1]) =
                  <<"d","o","m","a","i","n","s","/","r","e","f","e","r","e","n","c","e","/","d","e","m","o","/","*","*">>
           /\ PathStr(files[k].obj.pull_request_paths[2]) =
                  <<".","g","i","t","h","u","b","/","w","o","r","k","f","l","o","w","s","/","c","i","-","c","d","-","-","r","e","f","e","r","e","n","c","e","-","-","d","e","m","o",".","y","m","l">>
           /\ <<outdir>> \o files[k].obj.push_paths[2] \in DOMAIN fs

-----------------------------------------------------------------------------
(* One process on an empty disk, then runs of the workflow it wrote        *)

Events == {"push", "pull_request", "workflow_dispatch"}

Refs == {RefOfBranch(b) : b \in Branches} \cup {PullRequestRef}

NextPipeline ==
    \/ NewMetaflowProject(P_demo, D_reference, <<>>, <<>>)
    \/ \E i \in 1..MaxProjects, filename \in {F_sample, F_dummy} : AddFlow(i, filename)
    \/ SynthWalk
    \/ \E path \in DOMAIN fs, event \in Events, ref \in Refs,
          environment \in {"", "dev", "prod"} :
           TriggerPipeline(path, event, ref, environment)
    \/ \E j \in 1..(MaxFlows + 3) : EvaluateJob(j)
    \/ \E j \in 1..(MaxFlows + 3), failed_at \in 0..(MaxFlows + 3) : FinishJob(j, failed_at)

SpecPipeline == InitTree /\ [][NextPipeline]_vars

\* the jobs of the run that were started, by id
StartedJobs ==
    {pipeline.jobs[j].key : j \in {m \in DOMAIN pipeline.jobs :
                                       pipeline.status[m] \in {"running", "success", "failure"}}}

StatusOf(id) == pipeline.status[JobIndex(pipeline.jobs, id)]

LintAndTest == {<<"l","i","n","t">>, <<"t","e","s","t">>}

ManualDeploy == {<<"m","a","n","u","a","l","-","d","e","p","l","o","y">>}

IsAutoDeploy(id) ==
    /\ Len(id) > 13
    /\ SubSeq(id, 1, 13) = <<"a","u","t","o","-","d","e","p","l","o","y","-","-">>

\* C14: a pull_request run starts only lint and test; a push run starts only
\* lint, test and auto-deploy jobs, an auto-deploy job only once lint and test
\* have both succeeded; a workflow_dispatch run starts only manual-deploy; no
\* run starts both an auto-deploy job and the manual-deploy job.
JobsAreGatedByTriggerEvent ==
    /\ pipeline.event = "pull_request" => StartedJobs \subseteq LintAndTest
    /\ pipeline.event = "push" =>
           /\ \A id \in StartedJobs : id \in LintAndTest \/ IsAutoDeploy(id)
           /\ (\E id \in StartedJobs : IsAutoDeploy(id)) =>
                  \A id \in LintAndTest : StatusOf(id) = "success"
    /\ pipeline.event = "workflow_dispatch" => StartedJobs \subseteq ManualDeploy
    /\ ~ /\ \E id \in StartedJobs : IsAutoDeploy(id)
         /\ StartedJobs \cap ManualDeploy # {}

AutoDeployRanAfterLintAndTest ==
    /\ pipeline.event = "push"
    /\ \E id \in StartedJobs : IsAutoDeploy(id) /\ StatusOf(id) = "success"
    /\ pipeline.prod_deployed # {}

PullRequestRanLintAndTest ==
    /\ pipeline.event = "pull_request"
    /\ StartedJobs = LintAndTest

ManualDeployRan ==
    /\ pipeline.event = "workflow_dispatch"
    /\ StartedJobs = ManualDeploy


\* C15: a workflow_dispatch run from a branch other than main never
\* configures the production user and perimeter and never takes the
\* production deployment path, whatever environment was chosen.
ManualProdDeploymentOnlyFromMain ==
    (pipeline.event = "workflow_dispatch" /\ pipeline.ref # "refs/heads/main")
        => pipeline.prod_configured = {} /\ pipeline.prod_deployed = {}

\* what does hold: production comes with the choice "prod", on any branch
ManualProdDeploymentOnlyWhenChosen ==
    (pipeline.event = "workflow_dispatch" /\ pipeline.environment # "prod")
        => pipeline.prod_configured = {} /\ pipeline.prod_deployed = {}


\* the workflow documents an earlier process left on disk
DocumentsOnDisk == {disk0[path] : path \in {q \in DOMAIN disk0 : disk0[q].kind = "yaml"}}

DocumentsOfTree == {files[k].obj : k \in WorkflowFiles}

\* the inputs a document was built from, as far as the document shows them
FlowsOfDocument(doc) ==
    LET steps == JobOf(doc.jobs, <<"m","a","n","u","a","l","-","d","e","p","l","o","y">>).steps
    IN  [j \in 1..(Len(steps) - SetupStepCount) |-> steps[SetupStepCount + j].flow_file_name]

DirectoryOfDocument(doc) == JobOf(doc.jobs, <<"l","i","n","t">>).working_directory

AutoDeployJobIdsOf(doc) == {id \in Range(DictKeys(doc.jobs)) : IsAutoDeploy(id)}

\* C17: the pipeline definition is built at pre-synthesis, never at
\* construction: no workflow file exists in the tree before synth() is called,
\* and once pre-synthesis is over every project has its document, with an
\* auto-deploy job and a manual-deploy step for every flow registered before
\* synth(), whenever the flow was added.
PipelineIsBuiltAtPreSynthesisFromAllFlows ==
    /\ idx = 0 => WorkflowFiles = {}
    /\ phase \in {"synth", "post", "done"} =>
           \A i \in DOMAIN projects :
               \E k \in WorkflowFiles :
                   /\ ProjectOf(k) = i
                   /\ files[k].obj.name = <<projects[i].domain, projects[i].name>>
                   /\ Range(FlowsOfDocument(files[k].obj)) = Range(FlowFileNames(projects[i]))
                   /\ AutoDeployJobIdsOf(files[k].obj) =
                          {AutoDeployJobId(f) : f \in Range(FlowFileNames(projects[i]))}

\* a flow added to the first project after the second project was constructed
FlowAddedAfterSecondProjectIsInPipeline ==
    /\ phase \in {"synth", "post", "done"}
    /\ Len(projects) = 2
    /\ \E j \in DOMAIN projects[1].flows, k, m \in DOMAIN files :
           /\ files[k].file_path = projects[1].flows[j].flow_path
           /\ files[m].file_path = projects[2].outdir \o <<<<"R","E","A","D","M","E",".","m","d">>>>
           /\ m < k

-----------------------------------------------------------------------------
(* One process that constructs projects from valid and invalid inputs      *)

N_Demo == <<"D","e","m","o">>
N_x == <<"x">>
N_my_proj == <<"m","y","_","p","r","o","j">>
N_ab_ == <<"a","b","-">>
D_bogus == <<"b","o","g","u","s">>
D_Reference == <<"R","e","f","e","r","e","n","c","e">>
M_my_mod == <<"m","y","_","m","o","d">>
M_Mod == <<"M","o","d">>
M_my_mod_hyphen == <<"m","y","-","m","o","d">>

ProjectNames == {P_demo, P_my_proj, N_Demo, N_x, N_my_proj, N_ab_}

Domains == {D_reference, D_bogus, D_Reference}

\* None is <<>>
ImportModuleNames == {<<>>, M_my_mod, M_Mod, M_my_mod_hyphen}

NextProjects ==
    \E name \in ProjectNames, domain \in Domains, import_module_name \in ImportModuleNames :
        NewMetaflowProject(name, domain, import_module_name, <<>>)

SpecProjects == InitTree /\ [][NextProjects]_vars

\* repo.metaflow_projects
RegisteredProjects == SelectSeq(projects, LAMBDA p : p.registered)

Letters == {"a","b","c","d","e","f","g","h","i","j","k","l","m","n","o","p","q","r","s","t","u","v","w","x","y","z"}

\* letters and `sep` only, a letter first and last, at least two characters,
\* upper case and surrounding blanks forgiven
IsValidName(name, sep) ==
    LET s == StrStrip(StrLower(name))
    IN  /\ Len(s) >= 2
        /\ \A i \in DOMAIN s : s[i] \in Letters \cup {sep}
        /\ s[1] # sep
        /\ s[Len(s)] # sep

AreValidProjectInputs(name, domain, import_module_name) ==
    /\ IsValidName(name, "-")
    /\ domain \in {<<"c","o","n","t","e","n","t">>, <<"o","p","e","r","a","t","i","o","n","s">>, <<"f","o","r","e","c","a","s","t","i","n","g">>, <<"m","a","r","k","e","t","-","i","n","t","e","l","l","i","g","e","n","c","e">>, <<"d","e","m","a","n","d","-","g","e","n","e","r","a","t","i","o","n">>, <<"a","d","v","e","r","t","i","s","i","n","g">>, <<"r","e","f","e","r","e","n","c","e">>}
    /\ import_module_name # <<>> => IsValidName(import_module_name, "_")

\* C18: constructing a project with an invalid name, a domain outside the
\* set or an invalid import module name raises at construction and leaves the
\* repository's project list as it was; constructing one with valid inputs
\* appends it to the list, once and at the end.
InvalidProjectIsRejectedAndNotRegistered ==
    [][(\A name \in ProjectNames, domain \in Domains,
           import_module_name \in ImportModuleNames :
            NewMetaflowProject(name, domain, import_module_name, <<>>) =>
                IF AreValidProjectInputs(name, domain, import_module_name)
                THEN /\ Len(RegisteredProjects') = Len(RegisteredProjects) + 1
                     /\ SubSeq(RegisteredProjects', 1, Len(RegisteredProjects))
                            = RegisteredProjects
                     /\ RegisteredProjects'[Len(RegisteredProjects')].name = name
                     /\ RegisteredProjects'[Len(RegisteredProjects')].domain = domain
                ELSE /\ phase' = "failed"
                     /\ error'.type = "ValueError"
                     /\ RegisteredProjects' = RegisteredProjects)
    ]_vars

InvalidProjectRejectedAfterValidOne ==
    /\ phase = "failed"
    /\ error.type = "ValueError"
    /\ Len(projects) = 2
    /\ Len(RegisteredProjects) = 1
    /\ RegisteredProjects[1].name = P_my_proj

-----------------------------------------------------------------------------
(* One process that meets every configuration error                        *)

NextErrors ==
    \/ \E name \in {P_demo, P_my_proj, N_my_proj}, domain \in {D_reference, D_bogus},
          import_module_name \in {<<>>, M_my_mod_hyphen} :
           NewMetaflowProject(name, domain, import_module_name, <<>>)
    \/ \E i \in 1..MaxProjects, filename \in {F_sample, F_DummyFlow, F_no_ext} :
           AddFlow(i, filename)
    \/ SynthWalk

SpecErrors == InitTree /\ [][NextErrors]_vars

ConfigurationError == phase = "failed" /\ error.type = "ValueError"

\* the two messages that state a naming rule and nothing else
NameRuleTexts ==
    {"Project name must: Only contain lowercase letters and hyphens; Start and end with a letter",
     "Import module name must: Only contain lowercase letters and underscores; Start and end with a letter"}

InvalidDomainErrorNamesTheDomain ==
    /\ ConfigurationError
    /\ error.values = <<D_bogus>>


\* <n with "_" for every "-">
ModuleOf(name) == [c \in DOMAIN name |-> IF name[c] = "-" THEN "_" ELSE name[c]]

\* the generated layout of project p under the repository's output
\* directory R
ExpectedLayout(R, p) ==
    LET dir == <<R, <<"d","o","m","a","i","n","s">>, p.domain, p.name>>
    IN  {<<R, <<".","g","i","t","h","u","b">>, <<"w","o","r","k","f","l","o","w","s">>,
           <<"c","i","-","c","d","-","-">> \o p.domain \o <<"-","-">> \o p.name \o <<".","y","m","l">>>>,
         dir \o <<<<"p","y","p","r","o","j","e","c","t",".","t","o","m","l">>>>,
         dir \o <<<<"R","E","A","D","M","E",".","m","d">>>>,
         dir \o <<<<"s","r","c">>, ModuleOf(p.name), <<"_","_","i","n","i","t","_","_",".","p","y">>>>}
        \cup {dir \o <<<<"s","r","c">>, f>> : f \in Range(FlowFileNames(p))}

AllFilesWritten == phase \in {"post", "done"}

\* C20: after synthesis of a repository with output directory R, the
\* workflow file, pyproject.toml, README.md, the package's __init__.py and the
\* flow files of every project exist under R, whatever the working directory,
\* and no generated file is written outside R.
GeneratedLayoutIsUnderOutputDirectory ==
    AllFilesWritten =>
        /\ \A i \in DOMAIN projects :
               \A path \in ExpectedLayout(outdir, projects[i]) : path \in DOMAIN fs
        /\ \A path \in DOMAIN fs : path[1] = outdir

\* the same, for a process whose working directory is the output directory
GeneratedLayoutIsUnderWorkingDirectory ==
    (AllFilesWritten /\ outdir = RootCwd) =>
        /\ \A i \in DOMAIN projects :
               \A path \in ExpectedLayout(outdir, projects[i]) : path \in DOMAIN fs
        /\ \A path \in DOMAIN fs : path[1] = outdir

\* with another output directory, all but __init__.py is under it
GeneratedLayoutButInitPyIsUnderOutputDirectory ==
    AllFilesWritten =>
        \A i \in DOMAIN projects :
            \A path \in ExpectedLayout(outdir, projects[i]) :
                path \in DOMAIN fs \/ path[Len(path)] = <<"_","_","i","n","i","t","_","_",".","p","y">>


-----------------------------------------------------------------------------
(* The test scaffolding, the ignore file and the directories of projects   *)

\* the files of the sample pytest framework, under the project directory
TestScaffolding(R, p) ==
    LET tests == <<R, <<"d","o","m","a","i","n","s">>, p.domain, p.name, <<"t","e","s","t","s">>>>
    IN  {tests \o <<<<"c","o","n","f","t","e","s","t",".","p","y">>>>,
         tests \o <<<<"f","i","x","t","u","r","e","s">>, <<"_","_","i","n","i","t","_","_",".","p","y">>>>,
         tests \o <<<<"f","i","x","t","u","r","e","s">>, <<"g","e","n","e","r","a","l","_","f","i","x","t","u","r","e","s",".","p","y">>>>,
         tests \o <<<<"u","n","i","t","_","t","e","s","t","s">>, <<"_","_","i","n","i","t","_","_",".","p","y">>>>,
         tests \o <<<<"u","n","i","t","_","t","e","s","t","s">>, <<"t","e","s","t","_","_","s","a","m","p","l","e",".","p","y">>>>}

\* C21: after synthesis the directory of every project holds
\* tests/conftest.py, tests/fixtures/__init__.py,
\* tests/fixtures/general_fixtures.py, tests/unit_tests/__init__.py and
\* tests/unit_tests/test__sample.py.
SynthesisScaffoldsTheTestSuite ==
    AllFilesWritten =>
        \A i \in DOMAIN projects :
            \A path \in TestScaffolding(outdir, projects[i]) : path \in DOMAIN fs

\* what synthesis leaves in the tests directory of a project: nothing
NoTestFileIsEverWritten ==
    \A path \in DOMAIN fs : \A s \in DOMAIN path : path[s] # <<"t","e","s","t","s">>


\* the ignore file in the repository's output directory
IgnoreFileOfRepository == fs[<<outdir, <<".","g","i","t","i","g","n","o","r","e">>>>].lines

\* marker first, then the patterns of the Repository, each once, in order
IsMarkerThenSortedEntries(lines) ==
    /\ Len(lines) = 1 + Len(GitignorePatterns)
    /\ lines[1] = GitignoreMarker
    /\ \A e \in Range(GitignorePatterns) :
           Cardinality({j \in 2..Len(lines) : lines[j] = e}) =
               Cardinality({j \in DOMAIN GitignorePatterns : GitignorePatterns[j] = e})
    /\ \A a, b \in 2..Len(lines) : a < b => ~StrLess(lines[b], lines[a])

\* C22: after synthesize, the ignore file in the repository's own output
\* directory is the marker line followed by all ignore entries in sorted
\* order, the sort having kept the marker and the multiset of entries.
IgnoreFileIsMarkerThenSortedEntries ==
    phase = "done" =>
        /\ <<outdir, <<".","g","i","t","i","g","n","o","r","e">>>> \in DOMAIN fs
        /\ IsMarkerThenSortedEntries(IgnoreFileOfRepository)

\* the same, for a process whose working directory is the output directory
IgnoreFileInWorkingDirectoryIsSorted ==
    (phase = "done" /\ outdir = RootCwd) =>
        /\ <<outdir, <<".","g","i","t","i","g","n","o","r","e">>>> \in DOMAIN fs
        /\ IsMarkerThenSortedEntries(IgnoreFileOfRepository)
        /\ Sorted(Tail(IgnoreFileOfRepository)) = Tail(IgnoreFileOfRepository)


\* One process whose projects are given directories that collide: that of a
\* sibling, and (as an absolute path) that of the repository.
ProjectsInCollidingDirs ==
    {<<P_demo, <<>>>>, <<P_my_proj, <<P_demo>>>>, <<P_my_proj, <<RootOut>>>>}

NextSiblings ==
    \/ \E a \in ProjectsInCollidingDirs : NewMetaflowProject(a[1], D_reference, <<>>, a[2])
    \/ \E i \in 1..MaxProjects, filename \in {F_sample, F_dummy} : AddFlow(i, filename)
    \/ SynthWalk

SpecSiblings == InitTree /\ [][NextSiblings]_vars

\* the directory of a project, the repository's output directory included
DirectoryOf(p) == PathJoin(<<outdir>>, p.outdir)

NoConstructionFailed == phase # "failed" \/ idx > 0

\* C23: as long as every Project construction succeeded, no two registered
\* projects have the same output directory and no project's output directory
\* is the repository's (a construction that would make it so is rejected).
ProjectDirectoriesAreDistinct ==
    NoConstructionFailed =>
        /\ \A i, j \in DOMAIN projects :
               DirectoryOf(projects[i]) = DirectoryOf(projects[j]) => i = j
        /\ \A i \in DOMAIN projects : DirectoryOf(projects[i]) # <<outdir>>

\* the part about siblings
SiblingDirectoriesAreDistinct ==
    NoConstructionFailed =>
        \A i, j \in DOMAIN projects :
            DirectoryOf(projects[i]) = DirectoryOf(projects[j]) => i = j

SiblingInSameDirectoryRejected ==
    /\ phase = "failed"
    /\ Len(projects) = 2
    /\ DirectoryOf(projects[1]) = DirectoryOf(projects[2])


\* lowercase letters and hyphens only, a letter first and last
IsNormalizedName(name) ==
    /\ name # <<>>
    /\ \A i \in DOMAIN name : name[i] \in Letters \cup {"-"}
    /\ name[1] \in Letters
    /\ name[Len(name)] \in Letters

\* C24: the name a registered project stores, which names its output
\* directory, its manifest and its pipeline file, consists of lowercase
\* letters and hyphens only and starts and ends with a letter.
StoredNamesAreNormalized ==
    \A i \in DOMAIN RegisteredProjects :
        LET p == RegisteredProjects[i]
        IN  /\ IsNormalizedName(p.name)
            /\ IsNormalizedName(p.outdir[Len(p.outdir)])
            /\ \A c \in DOMAIN WorkflowName(p) :
                   WorkflowName(p)[c] \in Letters \cup {"-", "."}

\* what holds instead: the name is stored as it was given
StoredNamesAreAsGiven ==
    [][(\A name \in ProjectNames, domain \in Domains,
           import_module_name \in ImportModuleNames :
            (NewMetaflowProject(name, domain, import_module_name, <<>>)
                /\ phase' = "build") =>
                /\ projects'[Len(projects')].name = name
                /\ projects'[Len(projects')].outdir = <<S_domains, domain, name>>)
    ]_vars


-----------------------------------------------------------------------------
(* The manifest that is read, failed calls, repeated synthesis            *)

\* the manifest components of the tree
ManifestComponents == {k \in DOMAIN files : files[k].kind = "toml"}

\* the component's dependencies and groups are those merged from the
\* manifest at `path`, as the disk holds it while the tree is built
IsMergedFrom(c, path) ==
    LET got == TryGetDeps(fs, path)
    IN  /\ c.obj.groups = got[2]
        /\ got[1] # <<>> => c.obj.deps = got[1]

\* C25: the manifest merged into a regenerated manifest is the file at the
\* place the regenerated one is written to, the repository's output
\* directory joined with the component's path, whatever the working
\* directory is.
MergedManifestIsTheOneReplaced ==
    phase = "build" =>
        \A k \in ManifestComponents : IsMergedFrom(files[k], FinalPath(files[k].file_path))

\* what holds instead: the manifest merged is the one at the component's
\* path taken from the working directory
MergedManifestIsTheOneInWorkingDirectory ==
    phase = "build" =>
        \A k \in ManifestComponents : IsMergedFrom(files[k], files[k].file_path)

AdditionsInWorkingDirectoryMerged ==
    /\ phase = "build"
    /\ outdir = RootOut
    /\ \E k \in ManifestComponents :
           /\ "docs" \in DOMAIN files[k].obj.groups
           /\ FinalPath(files[k].file_path) \notin DOMAIN fs


\* the caller of a constructor or of add_flow catches the configuration
\* error and goes on with the same tree
ContinueAfterError ==
    /\ phase = "failed"
    /\ idx = 0
    /\ error.type = "ValueError"
    /\ phase' = "build"
    /\ error' = NoError
    /\ UNCHANGED <<outdir, fs, disk0, idx, projects, files, calls, runs, edits, arg, ret, pipeline,
                   default_dependency_groups>>

NextCaught ==
    \/ \E name \in {P_demo, N_x} : NewMetaflowProject(name, D_reference, <<>>, <<>>)
    \/ \E i \in 1..MaxProjects, filename \in {F_sample, F_no_ext} : AddFlow(i, filename)
    \/ ContinueAfterError
    \/ SynthWalk

SpecCaught == InitTree /\ [][NextCaught]_vars

\* a constructor or add_flow call raises a configuration error
RaisesConfigurationError ==
    /\ phase = "build"
    /\ phase' = "failed"
    /\ error'.type = "ValueError"

\* C26: a Project constructor or add_flow call that raises a configuration
\* error leaves the tree as it was, so that a later synthesize is the one of
\* the tree without the call: no node is added by the failing call, and the
\* walk raises no error on account of a partly initialised node.
FailedCallLeavesTheTreeAsItWas ==
    [][/\ RaisesConfigurationError => (projects' = projects /\ files' = files)
       /\ error'.type # "AttributeError"
    ]_vars

\* what holds: a failing add_flow leaves the tree as it was
FailedAddFlowLeavesTheTreeAsItWas ==
    [][(RaisesConfigurationError /\ projects # <<>> /\ Len(projects') = Len(projects)) =>
           (projects' = projects /\ files' = files)
    ]_vars

\* and a failing constructor leaves a node that makes the next walk fail
\* before anything is written
SynthesisAfterFailedConstructorFails ==
    (phase \in {"synth", "post", "done"}) => \A i \in DOMAIN projects : projects[i].registered

SynthesisFailedOnPartialProject ==
    /\ phase = "failed"
    /\ error.type = "AttributeError"
    /\ \E i \in DOMAIN projects : projects[i].registered /\ projects[i].flows # <<>>
    /\ fs = EmptyDict


\* synth() has returned and the script goes on with the same objects: it may
\* add projects and flows and call synth() again
ReturnFromSynth ==
    /\ phase = "done"
    /\ phase' = "build"
    /\ UNCHANGED <<outdir, fs, disk0, idx, projects, files, calls, error, runs, edits, arg, ret, pipeline,
                   default_dependency_groups>>

NextRepeat ==
    \/ \E name \in {P_demo, P_my_proj} : NewMetaflowProject(name, D_reference, <<>>, <<>>)
    \/ \E i \in 1..MaxProjects, filename \in {F_sample, F_dummy} : AddFlow(i, filename)
    \/ SynthWalk
    \/ ReturnFromSynth

SpecRepeat == InitTree /\ [][NextRepeat]_vars

\* the workflow file components of the tree that write to the pipeline file
\* of project p
WorkflowComponentsOf(p) ==
    {k \in DOMAIN files : /\ files[k].kind = "yaml"
                          /\ FinalPath(files[k].file_path) = FinalPath(WorkflowFilePath(p))}

\* C27: synth() may be called again on the same repository object, with or
\* without flows added in between: no pass fails on the pipeline file of a
\* project, and once a pass is through pre-synthesis every project has
\* exactly one workflow file component for its pipeline file, built from the
\* flows it has then.
SynthesisIsRepeatable ==
    /\ \A i \in DOMAIN projects :
           ~(phase = "failed" /\ idx > 0
                /\ error = FileExistsError(WorkflowFilePath(projects[i])))
    /\ phase \in {"synth", "post", "done"} =>
           \A i \in DOMAIN projects :
               /\ Cardinality(WorkflowComponentsOf(projects[i])) = 1
               /\ \A k \in WorkflowComponentsOf(projects[i]) :
                      files[k].obj = WorkflowContent(projects[i])

\* what holds: a pass gets through pre-synthesis only if no project had a
\* workflow file component before it, and then each has one, of its flows
OnlyTheFirstPassOfAProjectSucceeds ==
    [][(phase = "pre" /\ idx = 1 /\ projects # <<>>
            /\ \E k \in DOMAIN files : files[k].kind = "yaml") =>
           (phase' = "failed"
                /\ error' = FileExistsError(WorkflowFilePath(projects[1])))
    ]_vars

SecondSynthesisFailed ==
    /\ phase = "failed"
    /\ idx = 1
    /\ error = FileExistsError(WorkflowFilePath(projects[1]))
    /\ Cardinality(WorkflowComponentsOf(projects[1])) = 1
    /\ FinalPath(WorkflowFilePath(projects[1])) \in DOMAIN fs


-----------------------------------------------------------------------------
(* Class names, pipeline files of projects, the default groups             *)

\* C28: the class name derived for a flow that add_flow accepted is a
\* non-empty identifier, one that does not start with a digit, so that the
\* starter flow file declares a class of that name.
AcceptedFlowsHaveIdentifierClassNames ==
    \A i \in DOMAIN projects : \A j \in DOMAIN projects[i].flows :
        LET flow_name == projects[i].flows[j].flow_name
        IN  /\ flow_name # <<>>
            /\ flow_name[1] \notin DigitChars
            /\ IsIdentifier(flow_name)
            /\ \E k \in DOMAIN files :
                   /\ files[k].file_path = projects[i].flows[j].flow_path
                   /\ files[k].obj = FlowTemplate(flow_name)

\* what holds: the class name is never empty and has letters and digits only
AcceptedFlowsHaveAlphanumericClassNames ==
    \A i \in DOMAIN projects : \A j \in DOMAIN projects[i].flows :
        LET flow_name == projects[i].flows[j].flow_name
        IN  /\ flow_name # <<>>
            /\ \A c \in DOMAIN flow_name : flow_name[c] \in LowerChars \cup UpperChars \cup DigitChars

ClassNameStartsWithDigit ==
    /\ phase = "build"
    /\ \E i \in DOMAIN projects : \E j \in DOMAIN projects[i].flows :
           projects[i].flows[j].flow_name[1] \in DigitChars


\* C29: two registered projects of one repository with different output
\* directories have different pipeline files, also when they have the same
\* domain and name and differ in their outdir argument only.
ProjectsInDistinctDirectoriesHaveDistinctPipelineFiles ==
    \A i, j \in DOMAIN projects :
        (projects[i].registered /\ projects[j].registered
            /\ DirectoryOf(projects[i]) # DirectoryOf(projects[j])) =>
                FinalPath(WorkflowFilePath(projects[i])) # FinalPath(WorkflowFilePath(projects[j]))

\* what holds: the pipeline file is named after the domain and the name only
PipelineFileIsNamedAfterDomainAndName ==
    \A i, j \in DOMAIN projects :
        (projects[i].registered /\ projects[j].registered) =>
            ((projects[i].domain = projects[j].domain /\ projects[i].name = projects[j].name)
                <=> WorkflowFilePath(projects[i]) = WorkflowFilePath(projects[j]))

\* and the tree of two projects of one name fails in pre-synthesis
SynthesisOfSameNameProjectsFails ==
    phase \in {"synth", "post", "done"} =>
        \A i, j \in DOMAIN projects : projects[i].name = projects[j].name => i = j

SecondProjectOfSameNameFailedInPreSynthesis ==
    /\ phase = "failed"
    /\ idx = 2
    /\ Len(projects) = 2
    /\ DirectoryOf(projects[1]) # DirectoryOf(projects[2])
    /\ error = FileExistsError(WorkflowFilePath(projects[2]))


\* Processes that construct the manifests of the repository and of a project
\* over the manifests a developer left on disk.
NextDefaults ==
    \/ \E o \in Roots : NewRepository(o)
    \/ \E d \in DefaultDependencies : NewPyprojectToml(P_root, d)
    \/ NewMetaflowProject(P_demo, D_reference, <<>>, <<>>)
    \/ \E path \in ManifestPaths, m \in UserManifests : UserWritesManifest(path, m)

SpecDefaults == Init /\ [][NextDefaults]_vars

\* the entries of group g of a table of groups
EntriesOf(groups, g) == IF g \in DOMAIN groups THEN Range(groups[g]) ELSE {}

\* the groups of the manifest on disk that a manifest component reads
GroupsOnDiskOf(c) ==
    IF PathExists(c.file_path) THEN fs[PathResolve(c.file_path)].groups ELSE EmptyDict

\* C30: no construction of a manifest changes the table of default groups,
\* and every entry of every group of a manifest component of the tree is a
\* default or comes from the component's own manifest on disk: a group or an
\* entry of one project's manifest is never in the manifest of another.
DefaultGroupsAreCopiedNeverShared ==
    /\ default_dependency_groups = DEFAULT_DEPENDENCY_GROUPS
    /\ phase = "build" =>
           \A k \in ManifestComponents :
               \A g \in DOMAIN files[k].obj.groups :
                   Range(files[k].obj.groups[g]) \subseteq
                       EntriesOf(DEFAULT_DEPENDENCY_GROUPS, g)
                           \cup EntriesOf(GroupsOnDiskOf(files[k]), g)

\* the manifest of the repository was merged with a docs group found on
\* disk, and the manifest of a project constructed after it has none
ManifestConstructedAfterOneWithCustomGroup ==
    /\ phase = "build"
    /\ \E k1, k2 \in ManifestComponents :
           /\ k1 < k2
           /\ "docs" \in DOMAIN files[k1].obj.groups
           /\ "docs" \notin DOMAIN files[k2].obj.groups

=============================================================================
